---- MODULE Spec2Model ----
(***************************************************************************)
(* Model of the upload / poll / generate / dispatch pipeline of the video  *)
(* analyzer: src/api.ts (uploadFile, generateContent) and src/App.tsx      *)
(* (uploadVideo, onModeSelect, setTimecodes and the React state of App).   *)
(*                                                                         *)
(* Every async function is cut at its await points: one action per         *)
(* resumption.  The setState calls a handler makes before it suspends are  *)
(* applied together (React batches them into one render).                  *)
(***************************************************************************)
EXTENDS Integers, Sequences, FiniteSets, TLC

VARIABLES
    vidUrl,          \* App.tsx:43  object URL of the dropped video, or Null
    file,            \* App.tsx:44  the handle returned by uploadFile, or Null
    timecodeList,    \* App.tsx:46  the result list, or Null
    selectedMode,    \* App.tsx:49
    activeMode,      \* App.tsx:53  Null until the first onModeSelect
    isLoading,       \* App.tsx:54
    isLoadingVideo,  \* App.tsx:56
    videoError,      \* App.tsx:57
    chartMode,       \* App.tsx:59  the chart sub-mode, or "Custom"
    chartPrompt,     \* App.tsx:60
    chartLabel,      \* App.tsx:61
    searchQuery,     \* App.tsx:62
    up,              \* the uploadVideo/uploadFile invocations, by start order
    gen,             \* the onModeSelect/generateContent invocations in flight
    lastSettled,     \* history: the upload run whose promise settled last, 0 if none
    chartFocusLast,  \* history: the last of the preset clicks and field focuses was a focus
    chartPresetLast, \* history: the preset clicked last (the first preset before any click)
    listMode         \* history: the mode of the onModeSelect run that set timecodeList last

vars == <<vidUrl, file, timecodeList, selectedMode, activeMode, isLoading,
          isLoadingVideo, videoError, chartMode, chartPrompt, chartLabel, searchQuery,
          up, gen, lastSettled, chartFocusLast, chartPresetLast, listMode>>

appVars == <<vidUrl, file, timecodeList, selectedMode, activeMode, isLoading,
             isLoadingVideo, videoError, chartMode, chartPrompt, chartLabel,
             searchQuery>>

histVars == <<chartFocusLast, chartPresetLast, listMode>>

----------------------------------------------------------------------------
(* Bounds of the model *)

MaxUploads == 2      \* video drops (uploadFile runs) in one behaviour
MaxGens == 2         \* onModeSelect runs awaiting their response at one time
MaxPending == 2      \* PROCESSING answers the remote gives in one behaviour

Null == "null"           \* a mode key that is not set (activeMode before the first run)
NoUrl == 0               \* vidUrl = null; object URLs are numbered by upload run

UploadIds == 1..MaxUploads
GenIds == 1..MaxGens

----------------------------------------------------------------------------
(* Strings the code inspects character by character are tuples of          *)
(* one-character strings.                                                  *)

Str_video_mp4 == <<"v", "i", "d", "e", "o", "/", "m", "p", "4">>
Str_image_png == <<"i", "m", "a", "g", "e", "/", "p", "n", "g">>
Str_video == <<"v", "i", "d", "e", "o">>
Str_empty == <<>>
VideoPrefix == <<"v", "i", "d", "e", "o", "/">>

\* String.prototype.startsWith
StartsWith(s, p) ==
    /\ Len(s) >= Len(p)
    /\ SubSeq(s, 1, Len(p)) = p

MediaTypes == {Str_video_mp4, Str_image_png, Str_video, Str_empty}

\* e.dataTransfer.files[0]: undefined (present = FALSE), or a File with a media type
NoDroppedFile == [present |-> FALSE, type |-> Str_empty]
DroppedFiles == {NoDroppedFile} \cup {[present |-> TRUE, type |-> t] : t \in MediaTypes}

----------------------------------------------------------------------------
(* The remote file service, and the handle uploadFile returns (api.ts).     *)

FileStates == {"PROCESSING", "ACTIVE", "FAILED"}

\* useState<any>(null) of file; a handle is the getFile object: its name and state
NullFile == [id |-> 0, state |-> Null]
Handle(r, st) == [id |-> r, state |-> st]

\* One invocation of uploadVideo that reached uploadFile.
\*   pc       where the run is suspended ("idle": not started)
\*   state    getFile.state, the state last observed ("null" before the first answer)
\*   queries  client.files.get requests issued
\*   answers  answers to status queries received
\*   pendings PROCESSING answers received
\*   sleeps   5-second timers started
\*   err      why uploadFile rejected: "transport" (a request failed) or
\*            "processing" (api.ts:78, 'File processing failed.')
IdleUpload ==
    [pc |-> "idle", state |-> Null, queries |-> 0, answers |-> 0, pendings |-> 0,
     sleeps |-> 0, err |-> "none"]

\* the run the next video drop starts
NextUpload == Cardinality({r \in UploadIds : up[r].pc # "idle"}) + 1

InFlight(r) == up[r].pc \in {"uploading", "get", "loopget", "sleeping"}

----------------------------------------------------------------------------
(* Generation responses and the dispatch table (App.tsx:90-94, 135-147).    *)

\* An optional value (a property that may be undefined): <<>> or <<x>>
None == <<>>
Some(x) == <<x>>

Chr_bs == "\\"     \* the backslash
Chr_ap == "'"      \* the apostrophe

Txt_escaped == <<"A", Chr_bs, Chr_ap, "B">>
Txt_trailing == <<Chr_bs, Chr_bs, Chr_ap>>
Txt_twice == <<Chr_bs, Chr_ap, "C", Chr_bs, Chr_ap>>

\* Timecode, App.tsx:35-40
Item(tm, tx, ob, va) == [time |-> tm, text |-> tx, objects |-> ob, value |-> va]

TextItems == <<Item("00:01", Some(Txt_escaped), Some(<<"cat">>), None),
               Item("00:02", Some(Txt_trailing), None, None),
               Item("00:03", Some(Txt_twice), Some(<<>>), None)>>
ValueItems == <<Item("00:01", None, None, Some(1)),
                Item("00:02", None, None, Some(2))>>

\* call.args: {timecodes: [...]}, or an object without timecodes
CallArgs == {[timecodes |-> Some(TextItems)],
             [timecodes |-> Some(ValueItems)],
             [timecodes |-> None]}

\* the keys of the object literal of App.tsx:138-146
DeclaredTools == {"set_timecodes", "set_timecodes_with_objects",
                  "set_timecodes_with_numeric_values"}

\* Property names an object literal inherits from Object.prototype whose value
\* is a function that accepts any argument: obj[name](args) calls it and returns.
InheritedCallables == {"toString"}

\* call.name as the remote may send it
CallNames == DeclaredTools \cup InheritedCallables \cup {"get_weather"}

Calls == [name : CallNames, args : CallArgs]

\* resp.functionCalls: undefined, or a list of calls
FunctionCallLists ==
    {None, Some(<<>>)}
        \cup {Some(<<c>>) : c \in Calls}
        \cup {Some(<<c, d>>) : c \in {x \in Calls : x.args.timecodes = Some(TextItems)},
                d \in {[name |-> "set_timecodes_with_numeric_values",
                        args |-> [timecodes |-> Some(ValueItems)]]}}

\* lists of timecoded values of other lengths: none, one, three
ValueLists ==
    {<<>>, <<ValueItems[2]>>, <<ValueItems[2], ValueItems[1], ValueItems[2]>>}

\* responses with one call of set_timecodes_with_numeric_values with a list
NumericCallLists ==
    {Some(<<[name |-> "set_timecodes_with_numeric_values",
             args |-> [timecodes |-> Some(l)]]>>) : l \in ValueLists \cup {ValueItems}}

\* every response of the model
Responses == FunctionCallLists \cup NumericCallLists

\* useState<Timecode[] | null>(null): null = TRUE stands for null and undefined
NullList == [null |-> TRUE, items |-> <<>>]
List(items) == [null |-> FALSE, items |-> items]

\* App.tsx:93 without the g flag: text.replace(/\\'/, "'") replaces the first match only
ReplaceFirstOnly(s) ==
    LET at == {i \in 1..(Len(s) - 1) : s[i] = Chr_bs /\ s[i + 1] = Chr_ap} IN
    IF at = {} THEN s
    ELSE LET i == CHOOSE i \in at : \A j \in at : i <= j IN
         SubSeq(s, 1, i - 1) \o <<Chr_ap>> \o SubSeq(s, i + 2, Len(s))

\* App.tsx:93  text.replace(/\\'/g, "'"): left to right, matches do not overlap
RECURSIVE ReplaceEscaped(_)
ReplaceEscaped(s) ==
    IF Len(s) = 0 THEN <<>>
    ELSE IF Len(s) >= 2 /\ s[1] = Chr_bs /\ s[2] = Chr_ap
    THEN <<Chr_ap>> \o ReplaceEscaped(SubSeq(s, 3, Len(s)))
    ELSE <<s[1]>> \o ReplaceEscaped(Tail(s))

\* What a call of a handler does: it throws, or it ends with the result list
\* set to `list` (set = TRUE) or untouched (set = FALSE).
Threw == [threw |-> TRUE, set |-> FALSE, list |-> NullList]
Returned == [threw |-> FALSE, set |-> FALSE, list |-> NullList]
SetList(l) == [threw |-> FALSE, set |-> TRUE, list |-> l]

\* App.tsx:90-94  setTimecodes: timecodes.map throws on undefined, and
\* t.text!.replace throws on an item without text
SetTimecodes(args) ==
    IF args.timecodes = None THEN Threw
    ELSE LET tcs == args.timecodes[1] IN
         IF \E i \in 1..Len(tcs) : tcs[i].text = None THEN Threw
         ELSE SetList(List([i \in 1..Len(tcs) |->
                  [tcs[i] EXCEPT !.text = Some(ReplaceEscaped(tcs[i].text[1]))]]))

\* App.tsx:141-145 with the handler of the two other tools bound to the name
SetNumericTimecodesAsText(args) == SetTimecodes(args)

\* App.tsx:141-145  setTimecodeList(timecodes), whatever timecodes is
SetNumericTimecodes(args) ==
    IF args.timecodes = None THEN SetList(NullList)
    ELSE SetList(List(args.timecodes[1]))

\* App.tsx:138-146  ({...})[call.name](call.args): the property lookup goes
\* through the prototype chain; calling undefined throws a TypeError
CallHandler(name, args) ==
    IF name \in {"set_timecodes", "set_timecodes_with_objects"} THEN SetTimecodes(args)
    ELSE IF name = "set_timecodes_with_numeric_values" THEN SetNumericTimecodes(args)
    ELSE IF name \in InheritedCallables THEN Returned
    ELSE Threw

\* App.tsx:135  resp.functionCalls?.[0]
FirstCall(fcs) ==
    IF fcs = None THEN None
    ELSE IF Len(fcs[1]) = 0 THEN None
    ELSE Some(fcs[1][1])

----------------------------------------------------------------------------
(* uploadVideo and uploadFile (App.tsx:153-182, api.ts:52-82).             *)

\* One invocation of onModeSelect; a slot is taken again once its run is over.
\*   pc      "idle" not started; "awaiting" the generate request is out;
\*           how the last run of the slot ended otherwise:
\*           "nofile" generateContent threw before any request;
\*           "rejected" the request failed; "nocall" done without a call;
\*           "done" done after a handler ran; "threw" the dispatch threw
\* and, while the run is awaiting,
\*   file    the handle the request carries
\*   stale   a video was dropped (uploadVideo reached uploadFile) after the run started
\*   list0   timecodeList when the run started
\*   mode    the mode the run was started in (the argument of onModeSelect)
\*   input   the argument of the Chart mode's prompt function, None in another mode
IdleGen ==
    [pc |-> "idle", file |-> NullFile, stale |-> FALSE, list0 |-> NullList,
     mode |-> Null, input |-> None]

Awaiting(g) == gen[g].pc = "awaiting"

\* the slot the next Generate action takes
FreeGens == {g \in GenIds : ~Awaiting(g)}
NextGen == CHOOSE g \in FreeGens : \A h \in FreeGens : g <= h

\* a video drop makes the runs in flight stale
MarkStale == [g \in GenIds |-> IF Awaiting(g) THEN [gen[g] EXCEPT !.stale = TRUE] ELSE gen[g]]

\* The test of App.tsx:165 with the prefix 'video' (the slash forgotten)
IsVideoFileNoSlash(f) == StartsWith(f.type, Str_video)

\* App.tsx:165  droppedFile.type.startsWith('video/')
IsVideoFile(f) == StartsWith(f.type, VideoPrefix)

\* The loop test of api.ts:65 against a state name the service never sends
LoopContinuesWrongName(st) == st = "PENDING"

\* api.ts:65  while (getFile.state === 'PROCESSING')
LoopContinues(st) == st = "PROCESSING"

\* api.ts:77 without the test: the handle is returned whatever its state
ProcessingFailedUnchecked(st) == FALSE

\* api.ts:77  if (getFile.state === 'FAILED') throw
ProcessingFailed(st) == st = "FAILED"

\* App.tsx:176-177  uploadFile resolved with the handle res
UploadResolved(res) ==
    /\ file' = res
    /\ isLoadingVideo' = FALSE
    /\ UNCHANGED <<vidUrl, timecodeList, selectedMode, activeMode, isLoading,
                   videoError, chartMode, chartPrompt, chartLabel, searchQuery>>

\* App.tsx:178-181  uploadFile rejected: the catch block
UploadCaught ==
    /\ videoError' = TRUE
    /\ isLoadingVideo' = FALSE
    /\ UNCHANGED <<vidUrl, file, timecodeList, selectedMode, activeMode, isLoading,
                   chartMode, chartPrompt, chartLabel, searchQuery>>

\* api.ts:65-81 with an attempt bound: after two status queries the loop ends
\* whatever the state
AfterGetAttemptBound(r, u) ==
    IF LoopContinues(u.state) /\ u.queries < 2
    THEN /\ up' = [up EXCEPT ![r] = [u EXCEPT !.pc = "loopget",
                                              !.queries = u.queries + 1]]
         /\ UNCHANGED <<appVars, lastSettled>>
    ELSE IF ProcessingFailed(u.state)
    THEN /\ up' = [up EXCEPT ![r] = [u EXCEPT !.pc = "threw", !.err = "processing"]]
         /\ lastSettled' = r
         /\ UploadCaught
    ELSE /\ up' = [up EXCEPT ![r] = [u EXCEPT !.pc = "returned"]]
         /\ lastSettled' = r
         /\ UploadResolved(Handle(r, u.state))

\* api.ts:65-81  the loop test and what follows the loop, for run r whose
\* record (with the state just observed) is u
AfterGet(r, u) ==
    IF LoopContinues(u.state)
    THEN \* api.ts:66  the next request goes out at once
         /\ up' = [up EXCEPT ![r] = [u EXCEPT !.pc = "loopget",
                                              !.queries = u.queries + 1]]
         /\ UNCHANGED <<appVars, lastSettled>>
    ELSE IF ProcessingFailed(u.state)
    THEN /\ up' = [up EXCEPT ![r] = [u EXCEPT !.pc = "threw", !.err = "processing"]]
         /\ lastSettled' = r
         /\ UploadCaught
    ELSE /\ up' = [up EXCEPT ![r] = [u EXCEPT !.pc = "returned"]]
         /\ lastSettled' = r
         /\ UploadResolved(Handle(r, u.state))

\* App.tsx:153-175 and api.ts:52-59: the drop handler, up to the first await
UploadVideo(f) ==
    /\ f \in DroppedFiles
    /\ IF ~f.present
       THEN \* App.tsx:160-163
            /\ isLoadingVideo' = FALSE
            /\ videoError' = FALSE
            /\ UNCHANGED <<vidUrl, up, gen>>
       ELSE IF ~IsVideoFile(f)
       THEN \* App.tsx:165-170
            /\ videoError' = TRUE
            /\ isLoadingVideo' = FALSE
            /\ vidUrl' = NoUrl
            /\ UNCHANGED <<up, gen>>
       ELSE \* App.tsx:172-175, api.ts:54: the upload request goes out
            /\ NextUpload <= MaxUploads
            /\ isLoadingVideo' = TRUE
            /\ videoError' = FALSE
            /\ vidUrl' = NextUpload
            /\ up' = [up EXCEPT ![NextUpload] = [IdleUpload EXCEPT !.pc = "uploading"]]
            /\ gen' = MarkStale
    /\ UNCHANGED <<file, timecodeList, selectedMode, activeMode, isLoading,
                   chartMode, chartPrompt, chartLabel, searchQuery, lastSettled,
                   histVars>>

\* api.ts:54-64  client.files.upload resolved; the first status query goes out
UploadAcknowledged(r) ==
    /\ up[r].pc = "uploading"
    /\ up' = [up EXCEPT ![r].pc = "get", ![r].queries = 1]
    /\ UNCHANGED <<appVars, gen, lastSettled, histVars>>

\* api.ts:54 or 62 or 66  a request of the run rejected (network, auth):
\* uploadFile rejects and uploadVideo's catch runs
RequestRejected(r) ==
    /\ up[r].pc \in {"uploading", "get", "loopget"}
    /\ up' = [up EXCEPT ![r].pc = "threw", ![r].err = "transport"]
    /\ lastSettled' = r
    /\ UploadCaught
    /\ UNCHANGED <<gen, histVars>>

\* the PROCESSING answers received so far by the runs 1..n
RECURSIVE PendingsUpTo(_)
PendingsUpTo(n) == IF n = 0 THEN 0 ELSE up[n].pendings + PendingsUpTo(n - 1)

\* what the remote may answer to a status query: PROCESSING at most MaxPending
\* times in all
Answers ==
    IF PendingsUpTo(MaxUploads) < MaxPending
    THEN FileStates
    ELSE FileStates \ {"PROCESSING"}

Observe(u, st) ==
    [u EXCEPT !.state = st,
              !.answers = u.answers + 1,
              !.pendings = IF st = "PROCESSING" THEN u.pendings + 1 ELSE u.pendings]

\* api.ts:62-65  the first status query answered
FirstGetAnswered(r, st) ==
    /\ up[r].pc = "get"
    /\ st \in Answers
    /\ AfterGet(r, Observe(up[r], st))
    /\ UNCHANGED <<gen, histVars>>

\* api.ts:66-74  a status query of the loop answered; the timer is started
LoopGetAnswered(r, st) ==
    /\ up[r].pc = "loopget"
    /\ st \in Answers
    /\ up' = [up EXCEPT ![r] = [Observe(up[r], st) EXCEPT !.pc = "sleeping",
                                                         !.sleeps = up[r].sleeps + 1]]
    /\ UNCHANGED <<appVars, gen, lastSettled, histVars>>

\* api.ts:66-75 with the query of the loop not awaited: the timer is started
\* and fires while the query may still be out
SleepDoneQueryOut(r) ==
    /\ up[r].pc \in {"loopget", "sleeping"}
    /\ AfterGet(r, up[r])
    /\ UNCHANGED <<gen, histVars>>

\* api.ts:72-75, 65  the timer fired; back to the loop test
SleepDone(r) ==
    /\ up[r].pc = "sleeping"
    /\ AfterGet(r, up[r])
    /\ UNCHANGED <<gen, histVars>>

----------------------------------------------------------------------------
(* onModeSelect and generateContent (App.tsx:97-151, api.ts:21-50).         *)

\* modes is imported from ./modes; App.tsx names the keys Chart and Custom
\* (App.tsx:69-70) and starts on the first key (App.tsx:49-51).
FirstMode == "FirstMode"
ModeKeys == {FirstMode, "Chart", "Custom"}

\* App.tsx:72
HasSubMode == selectedMode \in {"Custom", "Chart"}

\* App.tsx:272  the mode selector and its Generate controls are rendered
ModeSelectorShown == vidUrl # NoUrl /\ ~isLoadingVideo

\* api.ts:26-47  the request object reads file.mimeType and file.uri: on null
\* this is a TypeError, raised before the client is called
CanBuildRequest(f) == f # NullFile

\* modes.Chart.subModes: the presets in key order, and the canned prompt
\* fragment of each.  No preset is named "Custom".
chartModes == <<"Excitement", "Importance">>

SubModes(p) ==
    IF p = "Excitement" THEN "fragment: excitement" ELSE "fragment: importance"

\* App.tsx:71, 322  the chart sub-mode that stands for the custom field
CustomChartKey == "Custom"

\* what the user may type into the custom chart field (App.tsx:315)
CustomTexts == {"", "cars in view", "people in view"}

\* App.tsx:70-71
IsChartMode == selectedMode = "Chart"
IsCustomChartMode == IsChartMode /\ chartMode = CustomChartKey

\* App.tsx:109-111  with the test of the sub-mode dropped: the custom text
\* is used whenever there is one
ChartInputTextWins ==
    IF chartPrompt # "" THEN chartPrompt ELSE
    IF chartMode = CustomChartKey THEN chartPrompt ELSE SubModes(chartMode)

\* App.tsx:109-111  chartInput
ChartInput ==
    IF IsCustomChartMode THEN chartPrompt ELSE SubModes(chartMode)

\* App.tsx:103-119  what the prompt function of the mode is applied to; the
\* text it returns, and the fixed prompts of the other modes, are texts of modes
PromptInput == IF IsChartMode THEN Some(ChartInput) ELSE None

\* App.tsx:306  a preset button of the chart panel
SetChartMode(p) ==
    /\ ModeSelectorShown
    /\ IsChartMode
    /\ p \in {chartModes[i] : i \in 1..Len(chartModes)}
    /\ chartMode' = p
    /\ chartFocusLast' = FALSE
    /\ chartPresetLast' = p
    /\ UNCHANGED <<vidUrl, file, timecodeList, selectedMode, activeMode, isLoading,
                   isLoadingVideo, videoError, chartPrompt, chartLabel, searchQuery,
                   up, gen, lastSettled, listMode>>

\* App.tsx:322  the custom chart field takes the focus
FocusChartPrompt ==
    /\ ModeSelectorShown
    /\ IsChartMode
    /\ chartMode' = CustomChartKey
    /\ chartFocusLast' = TRUE
    /\ UNCHANGED <<vidUrl, file, timecodeList, selectedMode, activeMode, isLoading,
                   isLoadingVideo, videoError, chartPrompt, chartLabel, searchQuery,
                   up, gen, lastSettled, chartPresetLast, listMode>>

\* App.tsx:315  the text of the custom chart field changes
TypeChartPrompt(t) ==
    /\ ModeSelectorShown
    /\ IsChartMode
    /\ t \in CustomTexts
    /\ chartPrompt' = t
    /\ UNCHANGED <<vidUrl, file, timecodeList, selectedMode, activeMode, isLoading,
                   isLoadingVideo, videoError, chartMode, chartLabel, searchQuery,
                   up, gen, lastSettled, histVars>>

\* App.tsx:97-133  the handler up to the await of generateContent
OnModeSelect(g) ==
    /\ ModeSelectorShown
    /\ FreeGens # {}
    /\ g = NextGen
    /\ searchQuery' = ""
    /\ activeMode' = selectedMode
    /\ isLoading' = TRUE
    /\ chartLabel' = chartPrompt
    /\ gen' = [gen EXCEPT ![g] =
                  IF CanBuildRequest(file)
                  THEN [pc |-> "awaiting", file |-> file, stale |-> FALSE,
                        list0 |-> timecodeList, mode |-> selectedMode,
                        input |-> PromptInput]
                  ELSE [IdleGen EXCEPT !.pc = "nofile"]]
    /\ UNCHANGED <<vidUrl, file, timecodeList, selectedMode, isLoadingVideo,
                   videoError, chartMode, chartPrompt, up, lastSettled, histVars>>

\* App.tsx:121  the generate request failed: the await throws and nothing of
\* onModeSelect after it runs
GenerateRejected(g) ==
    /\ gen[g].pc = "awaiting"
    /\ gen' = [gen EXCEPT ![g] = [IdleGen EXCEPT !.pc = "rejected"]]
    /\ UNCHANGED <<appVars, up, lastSettled, histVars>>

\* App.tsx:135-150 with setIsLoading(false) moved inside the if (call) block
GenerateAnsweredLoadingInsideIf(g, fcs) ==
    /\ gen[g].pc = "awaiting"
    /\ fcs \in Responses
    /\ LET call == FirstCall(fcs) IN
       IF call = None
       THEN /\ gen' = [gen EXCEPT ![g] = [IdleGen EXCEPT !.pc = "nocall"]]
            /\ UNCHANGED <<isLoading, timecodeList, listMode>>
       ELSE LET res == CallHandler(call[1].name, call[1].args) IN
            IF res.threw
            THEN /\ gen' = [gen EXCEPT ![g] = [IdleGen EXCEPT !.pc = "threw"]]
                 /\ UNCHANGED <<isLoading, timecodeList, listMode>>
            ELSE /\ timecodeList' = IF res.set THEN res.list ELSE timecodeList
                 /\ listMode' = IF res.set THEN gen[g].mode ELSE listMode
                 /\ isLoading' = FALSE
                 /\ gen' = [gen EXCEPT ![g] = [IdleGen EXCEPT !.pc = "done"]]
    /\ UNCHANGED <<vidUrl, file, selectedMode, activeMode, isLoadingVideo,
                   videoError, chartMode, chartPrompt, chartLabel, searchQuery, up,
                   lastSettled, chartFocusLast, chartPresetLast>>

\* App.tsx:135-150  the response arrived with function calls fcs
GenerateAnswered(g, fcs) ==
    /\ gen[g].pc = "awaiting"
    /\ fcs \in Responses
    /\ LET call == FirstCall(fcs) IN
       IF call = None
       THEN /\ isLoading' = FALSE
            /\ gen' = [gen EXCEPT ![g] = [IdleGen EXCEPT !.pc = "nocall"]]
            /\ UNCHANGED <<timecodeList, listMode>>
       ELSE LET res == CallHandler(call[1].name, call[1].args) IN
            IF res.threw
            THEN /\ gen' = [gen EXCEPT ![g] = [IdleGen EXCEPT !.pc = "threw"]]
                 /\ UNCHANGED <<isLoading, timecodeList, listMode>>
            ELSE /\ timecodeList' = IF res.set THEN res.list ELSE timecodeList
                 /\ listMode' = IF res.set THEN gen[g].mode ELSE listMode
                 /\ isLoading' = FALSE
                 /\ gen' = [gen EXCEPT ![g] = [IdleGen EXCEPT !.pc = "done"]]
    /\ UNCHANGED <<vidUrl, file, selectedMode, activeMode, isLoadingVideo,
                   videoError, chartMode, chartPrompt, chartLabel, searchQuery, up,
                   lastSettled, chartFocusLast, chartPresetLast>>

\* App.tsx:361  a mode button of the list
SetSelectedMode(m) ==
    /\ ModeSelectorShown
    /\ ~HasSubMode
    /\ m \in ModeKeys
    /\ selectedMode' = m
    /\ UNCHANGED <<vidUrl, file, timecodeList, activeMode, isLoading, isLoadingVideo,
                   videoError, chartMode, chartPrompt, chartLabel, searchQuery, up, gen,
                   lastSettled, histVars>>

\* App.tsx:341-347  the Back button of the sub-mode panel
Back ==
    /\ ModeSelectorShown
    /\ HasSubMode
    /\ selectedMode' = FirstMode
    /\ UNCHANGED <<vidUrl, file, timecodeList, activeMode, isLoading, isLoadingVideo,
                   videoError, chartMode, chartPrompt, chartLabel, searchQuery, up, gen,
                   lastSettled, histVars>>

----------------------------------------------------------------------------

\* App.tsx:43-62  the initial React state; no run has started
Init ==
    /\ vidUrl = NoUrl
    /\ file = NullFile
    /\ timecodeList = NullList
    /\ selectedMode = FirstMode
    /\ activeMode = Null
    /\ isLoading = FALSE
    /\ isLoadingVideo = FALSE
    /\ videoError = FALSE
    /\ chartMode = chartModes[1]
    /\ chartPrompt = ""
    /\ chartLabel = ""
    /\ searchQuery = ""
    /\ up = [r \in UploadIds |-> IdleUpload]
    /\ gen = [g \in GenIds |-> IdleGen]
    /\ lastSettled = 0
    /\ chartFocusLast = FALSE
    /\ chartPresetLast = chartModes[1]
    /\ listMode = Null

\* The state Init reaches by one video drop whose upload is acknowledged and
\* whose first status query answers ACTIVE (App.tsx:172-177).
InitUploaded ==
    /\ vidUrl = 1
    /\ file = Handle(1, "ACTIVE")
    /\ timecodeList = NullList
    /\ selectedMode = FirstMode
    /\ activeMode = Null
    /\ isLoading = FALSE
    /\ isLoadingVideo = FALSE
    /\ videoError = FALSE
    /\ chartMode = chartModes[1]
    /\ chartPrompt = ""
    /\ chartLabel = ""
    /\ searchQuery = ""
    /\ up = [r \in UploadIds |->
               IF r = 1
               THEN [IdleUpload EXCEPT !.pc = "returned", !.state = "ACTIVE",
                                       !.queries = 1, !.answers = 1]
               ELSE IdleUpload]
    /\ gen = [g \in GenIds |-> IdleGen]
    /\ lastSettled = 1
    /\ chartFocusLast = FALSE
    /\ chartPresetLast = chartModes[1]
    /\ listMode = Null

Next ==
    \/ \E f \in DroppedFiles : UploadVideo(f)
    \/ \E r \in UploadIds : UploadAcknowledged(r)
    \/ \E r \in UploadIds : RequestRejected(r)
    \/ \E r \in UploadIds, st \in FileStates : FirstGetAnswered(r, st)
    \/ \E r \in UploadIds, st \in FileStates : LoopGetAnswered(r, st)
    \/ \E r \in UploadIds : SleepDone(r)
    \/ \E g \in GenIds : OnModeSelect(g)
    \/ \E g \in GenIds : GenerateRejected(g)
    \/ \E g \in GenIds, fcs \in FunctionCallLists : GenerateAnswered(g, fcs)

\* The whole pipeline: drops, uploads, polls, Generate actions and responses.
Spec == Init /\ [][Next]_vars

\* The upload side alone: drops, uploads and polls.
NextUploadStep ==
    \/ \E f \in DroppedFiles : UploadVideo(f)
    \/ \E r \in UploadIds : UploadAcknowledged(r)
    \/ \E r \in UploadIds : RequestRejected(r)
    \/ \E r \in UploadIds, st \in FileStates : FirstGetAnswered(r, st)
    \/ \E r \in UploadIds, st \in FileStates : LoopGetAnswered(r, st)
    \/ \E r \in UploadIds : SleepDone(r)

SpecUpload == Init /\ [][NextUploadStep]_vars

\* a step of upload run r: a request of it settles, or its timer fires
RunStep(r) ==
    \/ UploadAcknowledged(r)
    \/ RequestRejected(r)
    \/ \E st \in FileStates : FirstGetAnswered(r, st)
    \/ \E st \in FileStates : LoopGetAnswered(r, st)
    \/ SleepDone(r)

\* The upload side where every request settles and every timer fires: a run
\* that can take a step eventually takes one.
SpecUploadFair == SpecUpload /\ \A r \in UploadIds : WF_vars(RunStep(r))

\* The upload side and the generate requests it lets out.  A request ends by
\* failing: what a response does (Spec, SpecGenerate) is written to timecodeList,
\* isLoading and gen only, and no guard of the upload side or of OnModeSelect
\* reads the first two.
NextRequests ==
    \/ NextUploadStep
    \/ \E g \in GenIds : OnModeSelect(g)
    \/ \E g \in GenIds : GenerateRejected(g)

SpecRequests == Init /\ [][NextRequests]_vars

\* The generation side alone, once a video is uploaded: Generate actions in
\* the mode selected at the start, and responses.
NextGenerate ==
    \/ \E g \in GenIds : OnModeSelect(g)
    \/ \E g \in GenIds : GenerateRejected(g)
    \/ \E g \in GenIds, fcs \in FunctionCallLists : GenerateAnswered(g, fcs)

SpecGenerate == InitUploaded /\ [][NextGenerate]_vars

\* The generation side with the mode buttons: the user changes the mode
\* between Generate actions.
NextModes ==
    \/ \E m \in ModeKeys : SetSelectedMode(m)
    \/ Back
    \/ NextGenerate

SpecModes == InitUploaded /\ [][NextModes]_vars

\* The chart panel and the Generate action, once a video is uploaded.
NextPrompt ==
    \/ \E m \in ModeKeys : SetSelectedMode(m)
    \/ Back
    \/ \E p \in {chartModes[i] : i \in 1..Len(chartModes)} : SetChartMode(p)
    \/ FocusChartPrompt
    \/ \E t \in CustomTexts : TypeChartPrompt(t)
    \/ \E g \in GenIds : OnModeSelect(g)
    \/ \E g \in GenIds : GenerateRejected(g)

SpecPrompt == InitUploaded /\ [][NextPrompt]_vars

\* responses whose first call is set_timecodes_with_numeric_values with a list
NumericFirstLists ==
    {fcs \in Responses :
        /\ FirstCall(fcs) # None
        /\ FirstCall(fcs)[1].name = "set_timecodes_with_numeric_values"
        /\ FirstCall(fcs)[1].args.timecodes # None}

\* The pipeline end to end, one generation after the other: drops of video
\* files (which may overlap), uploads, polls, a Generate action when no
\* generation is in flight, and responses that call
\* set_timecodes_with_numeric_values first.
NextEndToEnd ==
    \/ UploadVideo([present |-> TRUE, type |-> Str_video_mp4])
    \/ \E r \in UploadIds : UploadAcknowledged(r)
    \/ \E r \in UploadIds, st \in FileStates : FirstGetAnswered(r, st)
    \/ \E r \in UploadIds, st \in FileStates : LoopGetAnswered(r, st)
    \/ \E r \in UploadIds : SleepDone(r)
    \/ \E g \in GenIds : (\A h \in GenIds : ~Awaiting(h)) /\ OnModeSelect(g)
    \/ \E g \in GenIds, fcs \in NumericFirstLists : GenerateAnswered(g, fcs)

SpecEndToEnd == Init /\ [][NextEndToEnd]_vars

----------------------------------------------------------------------------
(* Properties                                                               *)

\* a later video drop has started another upload run
Superseded(r) == \E b \in UploadIds : b > r /\ up[b].pc # "idle"

\* run r's promise settles in this step
Settles(r) == InFlight(r) /\ up'[r].pc \in {"returned", "threw"}

\* a generate request goes out in this step, for slot g
RequestIssued(g) == ~Awaiting(g) /\ gen'[g].pc = "awaiting"

\* the response to the request of slot g arrives in this step
ResponseArrives(g) == Awaiting(g) /\ gen'[g].pc \in {"nocall", "done", "threw"}

\* C1: once upload B has started, the settling (success or failure) of the
\* earlier upload A changes none of file, videoError and isLoadingVideo.
C1_StaleUploadChangesNothing ==
    [][\A a \in UploadIds :
         (Superseded(a) /\ Settles(a)) =>
             /\ file' = file
             /\ videoError' = videoError
             /\ isLoadingVideo' = isLoadingVideo]_vars

\* C2: the response of a generation that was in flight when a new upload was
\* started is not applied to timecodeList.
C2_StaleGenerationNotApplied ==
    [][\A g \in GenIds :
         (Awaiting(g) /\ gen[g].stale /\ ~Awaiting(g)') =>
             timecodeList' = timecodeList]_vars

\* C3: when the poller observes FAILED, uploadVideo sets videoError, clears
\* isLoadingVideo and leaves file alone; and while the upload that settled last
\* failed in processing, no generate request goes out.
C3_FailedUploadBlocksGeneration ==
    [][/\ \A r \in UploadIds :
            (InFlight(r) /\ up'[r].pc = "threw" /\ up'[r].err = "processing") =>
                /\ up'[r].state = "FAILED"
                /\ videoError'
                /\ ~isLoadingVideo'
                /\ file' = file
       /\ \A g \in GenIds :
            (/\ RequestIssued(g)
             /\ lastSettled # 0
             /\ up[lastSettled].err = "processing") => FALSE]_vars

\* C4: every generate request in flight carries a handle, and its state is ACTIVE.
C4_RequestCarriesReadyHandle ==
    \A g \in GenIds :
        Awaiting(g) => gen[g].file # NullFile /\ gen[g].file.state = "ACTIVE"

\* C4 witness: a request is in flight for a handle that is not the video shown,
\* after the upload of the video shown has failed.
C4_Witness ==
    \E g \in GenIds :
        Awaiting(g) /\ videoError /\ vidUrl # NoUrl /\ gen[g].file.id # vidUrl

\* C5: a drop of a file whose type does not start with "video/" starts no
\* upload run, issues no request, and ends with videoError set and
\* isLoadingVideo cleared.
C5_NonVideoRejected ==
    [][\A f \in DroppedFiles :
         (f.present /\ ~StartsWith(f.type, VideoPrefix) /\ UploadVideo(f)) =>
             /\ up' = up
             /\ videoError'
             /\ ~isLoadingVideo']_vars

\* C5 witness: a non-video file was dropped while an upload was in flight.
C5_Witness ==
    /\ videoError
    /\ vidUrl = NoUrl
    /\ ~isLoadingVideo
    /\ \E r \in UploadIds : InFlight(r)

\* C6: an uploadFile that returned observed n PROCESSING answers and then
\* ACTIVE, and issued n + 1 status queries; it never returns on PROCESSING or
\* FAILED.
C6_QueriesUntilReady ==
    \A r \in UploadIds :
        up[r].pc = "returned" =>
            /\ up[r].state = "ACTIVE"
            /\ up[r].queries = up[r].pendings + 1

\* C6 witness: PROCESSING, PROCESSING, ACTIVE was observed with 3 queries.
C6_Witness ==
    \E r \in UploadIds :
        up[r].pc = "returned" /\ up[r].pendings = 2 /\ up[r].queries = 3

\* C7: a superseded upload run issues no further status query.
C7_StalePollerStops ==
    [][\A a \in UploadIds :
         Superseded(a) => up'[a].queries = up[a].queries]_vars

\* C8: a first call whose name is not a key of the dispatch table makes the
\* dispatch throw, and timecodeList is unchanged.
C8_UnknownToolRaises ==
    [][\A g \in GenIds, fcs \in FunctionCallLists :
         (/\ FirstCall(fcs) # None
          /\ FirstCall(fcs)[1].name \notin DeclaredTools
          /\ GenerateAnswered(g, fcs)) =>
             /\ gen'[g].pc = "threw"
             /\ timecodeList' = timecodeList]_vars

\* C9: when the generate request fails, isLoading becomes false.
C9_FailureLeavesLoading ==
    [][\A g \in GenIds :
         (Awaiting(g) /\ gen'[g].pc = "rejected") => isLoading' = FALSE]_vars

\* C10 as claimed: when onModeSelect completes on a response without a
\* function call, timecodeList is what it was when onModeSelect started, and
\* isLoading is false.
C10_NoCallListAsAtStart ==
    [][\A g \in GenIds :
         (Awaiting(g) /\ gen'[g].pc = "nocall") =>
             /\ timecodeList' = gen[g].list0
             /\ isLoading' = FALSE]_vars

\* C10 amended: neither step of an onModeSelect whose response has no
\* function call changes timecodeList, and its completion sets isLoading false.
C10_NoCallStepsKeepList ==
    [][\A g \in GenIds :
         /\ RequestIssued(g) => timecodeList' = timecodeList
         /\ (Awaiting(g) /\ gen'[g].pc = "nocall") =>
                /\ timecodeList' = timecodeList
                /\ isLoading' = FALSE]_vars

\* C10 witness: a run completed without a call while the list was not empty
\* and another run was still awaiting its response.
C10_Witness ==
    /\ \E g \in GenIds : gen[g].pc = "nocall"
    /\ \E g \in GenIds : Awaiting(g)
    /\ ~timecodeList.null
    /\ ~isLoading

\* C11: when the response to a request for a handle whose upload observed
\* PROCESSING, PROCESSING, ACTIVE calls set_timecodes_with_numeric_values first
\* with a list, timecodeList becomes that list: same length, same order, the
\* time and the value of every item unchanged; and isLoading becomes false.
C11_NumericListEndToEnd ==
    [][\A g \in GenIds :
         (/\ ResponseArrives(g)
          /\ up[gen[g].file.id].pendings = 2
          /\ up[gen[g].file.id].queries = 3) =>
             \A fcs \in NumericFirstLists :
                 GenerateAnswered(g, fcs) =>
                     LET l == FirstCall(fcs)[1].args.timecodes[1] IN
                     /\ ~timecodeList'.null
                     /\ Len(timecodeList'.items) = Len(l)
                     /\ \A i \in 1..Len(l) :
                            /\ timecodeList'.items[i].time = l[i].time
                            /\ timecodeList'.items[i].value = l[i].value
                     /\ ~isLoading']_vars

\* C11 witness: after PROCESSING, PROCESSING, ACTIVE and a Generate action the
\* result list is the list of three timecoded values.
C11_Witness ==
    /\ file # NullFile
    /\ up[file.id].pendings = 2
    /\ up[file.id].queries = 3
    /\ ~timecodeList.null
    /\ Len(timecodeList.items) = 3
    /\ timecodeList.items[1].value = Some(2)
    /\ timecodeList.items[2].value = Some(1)
    /\ ~isLoading

\* C12: at a Generate action in Chart mode, the argument of the prompt function
\* is the custom text if and only if the last of the preset clicks and field
\* focuses was a focus; otherwise it is the canned fragment of the preset
\* clicked last (the first preset before any click), whatever the custom text.
C12_LastFocusedInputWins ==
    [][\A g \in GenIds :
         (RequestIssued(g) /\ selectedMode = "Chart") =>
             /\ gen'[g].input # None
             /\ chartFocusLast <=> gen'[g].input[1] = chartPrompt
             /\ ~chartFocusLast => gen'[g].input[1] = SubModes(chartPresetLast)]_vars

\* C12 witness: a preset was clicked after a focus, custom text was typed
\* without another focus, and a request went out with the preset's fragment.
C12_Witness ==
    \E g \in GenIds :
        /\ Awaiting(g)
        /\ gen[g].input = Some(SubModes(chartModes[2]))
        /\ chartPrompt = "cars in view"
        /\ chartLabel = "cars in view"
        /\ ~chartFocusLast

\* the text s without every backslash that an apostrophe follows
WithoutEscapes(s) ==
    LET keep == {i \in 1..Len(s) : ~(s[i] = Chr_bs /\ i < Len(s) /\ s[i + 1] = Chr_ap)} IN
    [j \in 1..Cardinality(keep) |->
        s[CHOOSE i \in keep : Cardinality({k \in keep : k <= i}) = j]]

\* responses whose first call is set_timecodes or set_timecodes_with_objects
\* with a list whose items all have a text
TextFirstLists ==
    {fcs \in FunctionCallLists :
        /\ FirstCall(fcs) # None
        /\ FirstCall(fcs)[1].name \in {"set_timecodes", "set_timecodes_with_objects"}
        /\ FirstCall(fcs)[1].args.timecodes # None
        /\ \A i \in 1..Len(FirstCall(fcs)[1].args.timecodes[1]) :
               FirstCall(fcs)[1].args.timecodes[1][i].text # None}

\* the dispatch of fcs by run g in this step leaves the list of the first call
\* with every text normalized and time and objects unchanged
NormalizedListSet(g, fcs) ==
    LET l == FirstCall(fcs)[1].args.timecodes[1] IN
    /\ gen'[g].pc = "done"
    /\ ~timecodeList'.null
    /\ Len(timecodeList'.items) = Len(l)
    /\ \A i \in 1..Len(l) :
           /\ timecodeList'.items[i].text = Some(WithoutEscapes(l[i].text[1]))
           /\ timecodeList'.items[i].time = l[i].time
           /\ timecodeList'.items[i].objects = l[i].objects

\* C13 as claimed: a first call set_timecodes or set_timecodes_with_objects sets
\* timecodeList to the list of the call, in order, every backslash-apostrophe of
\* every text replaced by an apostrophe and time and objects unchanged; and
\* normalizing a text of the result again does not change it.
C13_NormalizedAndIdempotent ==
    [][\A g \in GenIds :
         ResponseArrives(g) =>
             \A fcs \in TextFirstLists :
                 GenerateAnswered(g, fcs) =>
                     /\ NormalizedListSet(g, fcs)
                     /\ \A i \in 1..Len(timecodeList'.items) :
                            ReplaceEscaped(timecodeList'.items[i].text[1])
                                = timecodeList'.items[i].text[1]]_vars

\* C13 amended: the same without the second normalization.
C13_NormalizedOnce ==
    [][\A g \in GenIds :
         ResponseArrives(g) =>
             \A fcs \in TextFirstLists :
                 GenerateAnswered(g, fcs) => NormalizedListSet(g, fcs)]_vars

\* C13 witness: the list of three texts was dispatched; the text with two
\* escaped apostrophes lost both backslashes, and the text backslash,
\* backslash, apostrophe became backslash, apostrophe.
C13_Witness ==
    /\ ~timecodeList.null
    /\ Len(timecodeList.items) = 3
    /\ timecodeList.items[1].text = Some(<<"A", Chr_ap, "B">>)
    /\ timecodeList.items[2].text = Some(<<Chr_bs, Chr_ap>>)
    /\ timecodeList.items[3].text = Some(<<Chr_ap, "C", Chr_ap>>)
    /\ timecodeList.items[1].objects = Some(<<"cat">>)

\* C14: every status query of a run after the first is issued after exactly one
\* sleep per earlier query, and a sleep starts only after a PROCESSING answer.
C14_SleepBetweenQueries ==
    [][\A r \in UploadIds :
         /\ (up[r].queries >= 1 /\ up'[r].queries = up[r].queries + 1) =>
                up[r].sleeps = up[r].queries
         /\ up'[r].sleeps = up[r].sleeps + 1 => up'[r].state = "PROCESSING"]_vars

\* C16: a run issues one status query at a time, and only once every status
\* query it issued before has been answered: when query N+1 goes out, N answers
\* have been observed.
C16_QueriesSequential ==
    [][\A r \in UploadIds :
         up'[r].queries # up[r].queries =>
             /\ up'[r].queries = up[r].queries + 1
             /\ up'[r].answers = up[r].queries]_vars

\* C16 witness: the third status query of a run is out and two are answered.
C16_Witness ==
    \E r \in UploadIds :
        up[r].pc = "loopget" /\ up[r].queries = 3 /\ up[r].answers = 2

\* C17: where every request settles and every timer fires, an upload run in
\* flight eventually settles, with isLoadingVideo false; a run settles on an
\* answer only when the answer is not PROCESSING, however many PROCESSING
\* answers came before; and the timer that fires after a PROCESSING answer is
\* followed by one more status query.
C17_PollsUntilTerminal ==
    /\ \A r \in UploadIds :
           InFlight(r) ~> (up[r].pc \in {"returned", "threw"} /\ ~isLoadingVideo)
    /\ [][\A r \in UploadIds :
             /\ (Settles(r) /\ up'[r].err # "transport") =>
                    up'[r].state \in {"ACTIVE", "FAILED"}
             /\ (up[r].pc = "sleeping" /\ up[r].state = "PROCESSING"
                     /\ up'[r] # up[r]) =>
                    /\ up'[r].pc = "loopget"
                    /\ up'[r].queries = up[r].queries + 1]_vars

\* C17 witness: a run failed in processing after as many PROCESSING answers as
\* the remote may give, and isLoadingVideo is false.
C17_Witness ==
    \E r \in UploadIds :
        /\ up[r].pc = "threw"
        /\ up[r].err = "processing"
        /\ up[r].pendings = MaxPending
        /\ up[r].queries = MaxPending + 1
        /\ ~isLoadingVideo

\* C15: a response with one call or more is dispatched as the response with
\* its first call alone is, and when the dispatch returns, every item of
\* timecodeList is an item of that call: nothing of the previous list is left.
C15_FirstCallOnlyReplaces ==
    [][\A g \in GenIds :
         ResponseArrives(g) =>
             \A fcs \in FunctionCallLists :
                 (FirstCall(fcs) # None /\ GenerateAnswered(g, fcs)) =>
                     LET call == FirstCall(fcs)[1]
                         from == IF call.args.timecodes = None THEN <<>>
                                 ELSE call.args.timecodes[1]
                     IN
                     /\ GenerateAnswered(g, Some(<<call>>))
                     /\ gen'[g].pc = "done" =>
                            \A i \in 1..Len(timecodeList'.items) :
                                \E j \in 1..Len(from) :
                                    /\ timecodeList'.items[i].time = from[j].time
                                    /\ timecodeList'.items[i].objects = from[j].objects
                                    /\ timecodeList'.items[i].value = from[j].value]_vars

\* C18: when the result list is displayed (isLoading false, timecodeList not
\* null), the run that set the list was started in the mode activeMode holds.
C18_ListOfActiveMode ==
    (~isLoading /\ ~timecodeList.null) => listMode = activeMode

\* C19: isLoading is true while a generate request is in flight.
C19_LoadingWhileInFlight ==
    (\E g \in GenIds : Awaiting(g)) => isLoading

\* C20: while an upload run is in flight the mode selector is hidden.
C20_SelectorHiddenWhileUploading ==
    (\E r \in UploadIds : InFlight(r)) => ~ModeSelectorShown

====
